---- MODULE Spec2Model ----
(***************************************************************************)
(* A model of jedi/api/environment.py: the version probe (_get_version),   *)
(* the directory validation (_get_executable_path), the Environment and    *)
(* InterpreterEnvironment classes and the discovery functions.             *)
(*                                                                         *)
(* Byte strings and strings are sequences of one-character strings, paths  *)
(* are sequences of components.  A Python call either returns a value,     *)
(* Return(v), or raises, InvalidPythonEnvironment(args).                   *)
(*                                                                         *)
(* Three specifications share the state:                                   *)
(*   SpecProbe      one call of _get_version or _get_executable_path on a  *)
(*                  synthetic process or filesystem;                       *)
(*   Spec           a caller that creates instances and uses them;         *)
(*   SpecDiscovery  a caller whose first call creates one discovery        *)
(*                  generator, which it consumes, or is create_environment;*)
(*   SpecConcurrent callers that run memoized methods of the same          *)
(*                  instances at the same time.                            *)
(***************************************************************************)
EXTENDS Integers, Sequences, FiniteSets, TLC

VARIABLES
    sys,     \* the host interpreter: sys.version_info, sys.prefix, sys.executable, sys.path
    envs,    \* the live Environment / InterpreterEnvironment instances, in creation order
    gen,     \* the discovery generator being consumed (find_virtualenvs / find_python_environments)
    last,    \* the most recent call of the caller: function, inputs, result
    callers  \* the concurrent callers of memoized methods, each with its position

vars == <<sys, envs, gen, last, callers>>

----------------------------------------------------------------------------
(* Bounds of the model. *)

\* largest version component of the synthetic probe outputs
MaxComponent == 11
\* longest noise output of a probed process, in tokens
MaxTokens == 5
\* most live instances
MaxEnvs == 2
\* most get_evaluator_subprocess calls per instance
MaxCalls == 2
\* longest list of paths given to find_virtualenvs
MaxPaths == 3
\* longest sys.path of the host
MaxSysPath == 2
\* most concurrent callers
MaxCallers == 2

----------------------------------------------------------------------------
(* Values, results and exceptions. *)

None == "None"

Return(v) == [ok |-> TRUE, value |-> v]

\* InvalidPythonEnvironment(*args): the one exception class of the module
InvalidPythonEnvironment(args) ==
    [ok |-> FALSE, exc |-> "InvalidPythonEnvironment", args |-> args]

Digit == <<"0", "1", "2", "3", "4", "5", "6", "7", "8", "9">>

IsDigit(c) == \E d \in 1..10 : Digit[d] = c

DigitVal(c) == (CHOOSE d \in 1..10 : Digit[d] = c) - 1

\* int(b'...') of a run of ASCII digits
RECURSIVE int(_)
int(ds) ==
    IF ds = <<>> THEN 0
    ELSE 10 * int(SubSeq(ds, 1, Len(ds) - 1)) + DigitVal(ds[Len(ds)])

\* '%s' % n for a non-negative integer n
RECURSIVE str(_)
str(n) ==
    IF n < 10 THEN <<Digit[n + 1]>>
    ELSE str(n \div 10) \o <<Digit[(n % 10) + 1]>>

\* '%s.%s' % (major, minor)
version_string(major, minor) == str(major) \o <<".">> \o str(minor)

\* os.path.join(path, name) and os.path.dirname(path) on component sequences
join(path, name) == Append(path, name)

dirname(path) == IF path = <<>> THEN <<>> ELSE SubSeq(path, 1, Len(path) - 1)

_SUPPORTED_PYTHONS ==
    << <<"2", ".", "7">>, <<"3", ".", "3">>, <<"3", ".", "4">>,
       <<"3", ".", "5">>, <<"3", ".", "6">> >>

----------------------------------------------------------------------------
(* _get_version: the version probe. *)

PythonSp == <<"P", "y", "t", "h", "o", "n", " ">>

StartsWith(s, p, at) ==
    /\ at + Len(p) - 1 <= Len(s)
    /\ \A k \in 1..Len(p) : s[at + k - 1] = p[k]

\* the end (exclusive) of the longest run of digits of s that starts at `at`
RECURSIVE DigitsEnd(_, _)
DigitsEnd(s, at) ==
    IF at <= Len(s) /\ IsDigit(s[at]) THEN DigitsEnd(s, at + 1) ELSE at

\* a failed re.match (its None)
NoMatch == <<>>

\* re.match(br'Python (\d+)\.(\d+)\.(\d+)', output): NoMatch, or the three groups.
\* \d+ is greedy and is followed by a literal that is no digit (or by the end
\* of the pattern), so each group is the longest run of digits.
re_match(output) ==
    IF ~StartsWith(output, PythonSp, 1) THEN NoMatch
    ELSE
    LET a0 == Len(PythonSp) + 1
        a1 == DigitsEnd(output, a0)
        b0 == a1 + 1
        b1 == DigitsEnd(output, b0)
        c0 == b1 + 1
        c1 == DigitsEnd(output, c0)
    IN  IF /\ a1 > a0 /\ StartsWith(output, <<".">>, a1)
           /\ b1 > b0 /\ StartsWith(output, <<".">>, b1)
           /\ c1 > c0
        THEN << SubSeq(output, a0, a1 - 1), SubSeq(output, b0, b1 - 1),
                SubSeq(output, c0, c1 - 1) >>
        ELSE NoMatch

\* What the child process does: Popen raises OSError or the process runs,
\* writes stdout and stderr and exits with retcode.
Process(launch, retcode, stdout, stderr) ==
    [launch |-> launch, retcode |-> retcode, stdout |-> stdout, stderr |-> stderr]

_get_version_lenient(proc) ==
    IF proc.launch = "OSError" THEN InvalidPythonEnvironment(<<>>)
    ELSE
    LET output == proc.stdout \o proc.stderr
        match == re_match(output)
    IN  IF match = NoMatch THEN InvalidPythonEnvironment(<<>>)
        ELSE Return(<<int(match[1]), int(match[2]), int(match[3])>>)

_get_version_stdout_only(proc) ==
    IF proc.launch = "OSError" THEN InvalidPythonEnvironment(<<>>)
    ELSE IF proc.retcode # 0 THEN InvalidPythonEnvironment(<<>>)
    ELSE
    LET match == re_match(proc.stdout)
    IN  IF match = NoMatch THEN InvalidPythonEnvironment(<<>>)
        ELSE Return(<<int(match[1]), int(match[2]), int(match[3])>>)

_get_version_two_groups(proc) ==
    IF proc.launch = "OSError" THEN InvalidPythonEnvironment(<<>>)
    ELSE IF proc.retcode # 0 THEN InvalidPythonEnvironment(<<>>)
    ELSE
    LET output == proc.stdout \o proc.stderr
        a0 == Len(PythonSp) + 1
        a1 == DigitsEnd(output, a0)
        b1 == DigitsEnd(output, a1 + 1)
    IN  IF /\ StartsWith(output, PythonSp, 1)
           /\ a1 > a0 /\ StartsWith(output, <<".">>, a1) /\ b1 > a1 + 1
        THEN LET m == re_match(output)
             IN  Return(<<int(SubSeq(output, a0, a1 - 1)),
                          int(SubSeq(output, a1 + 1, b1 - 1)),
                          IF m = NoMatch THEN 0 ELSE int(m[3])>>)
        ELSE InvalidPythonEnvironment(<<>>)

_get_version_stderr_first(proc) ==
    IF proc.launch = "OSError" THEN InvalidPythonEnvironment(<<>>)
    ELSE IF proc.retcode # 0 THEN InvalidPythonEnvironment(<<>>)
    ELSE
    LET output == proc.stderr \o proc.stdout
        match == re_match(output)
    IN  IF match = NoMatch THEN InvalidPythonEnvironment(<<>>)
        ELSE Return(<<int(match[1]), int(match[2]), int(match[3])>>)

_get_version(proc) ==
    IF proc.launch = "OSError" THEN InvalidPythonEnvironment(<<>>)
    ELSE IF proc.retcode # 0 THEN InvalidPythonEnvironment(<<>>)
    ELSE
    LET output == proc.stdout \o proc.stderr
        match == re_match(output)
    IN  IF match = NoMatch THEN InvalidPythonEnvironment(<<>>)
        ELSE Return(<<int(match[1]), int(match[2]), int(match[3])>>)

----------------------------------------------------------------------------
(* _get_executable_path: the directory validation. *)

\* os.path.exists over the files that exist
exists(fs, p) == p \in fs

_get_executable_path_any(fs, path) ==
    LET bin_folder == join(path, "bin")
        activate == join(bin_folder, "activate")
        python == join(bin_folder, "python")
    IN  IF ~(\E p \in {activate, python} : exists(fs, p))
        THEN InvalidPythonEnvironment(<<"One of bin/activate and bin/python is missing.">>)
        ELSE Return(python)

_get_executable_path(fs, path) ==
    LET bin_folder == join(path, "bin")
        activate == join(bin_folder, "activate")
        python == join(bin_folder, "python")
    IN  IF ~(\A p \in {activate, python} : exists(fs, p))
        THEN InvalidPythonEnvironment(<<"One of bin/activate and bin/python is missing.">>)
        ELSE Return(python)

----------------------------------------------------------------------------
(* The state before any call. *)

NoGen == [fn |-> None]

NoCall == [fn |-> None]

NoCallers == <<>>

\* The host: (sys.version_info[:3], sys.prefix, sys.executable, sys.path)
Host(version_info) ==
    [version_info |-> version_info,
     prefix |-> <<"usr">>,
     executable |-> <<"usr", "bin", "python">>,
     path |-> << <<"usr", "lib">> >>]

\* a host whose major.minor is one of _SUPPORTED_PYTHONS, and one whose is not
Hosts == { Host(<<3, 6, 5>>), Host(<<3, 10, 0>>) }

\* the host of the scenarios of Spec
Init ==
    /\ sys = Host(<<3, 6, 5>>)
    /\ envs = <<>>
    /\ gen = NoGen
    /\ last = NoCall
    /\ callers = NoCallers

----------------------------------------------------------------------------
(* The probe and the validation applied to synthetic inputs. *)

RetCodes == {0, 1, -15}

Triples == (0..MaxComponent) \X (0..MaxComponent) \X (0..MaxComponent)

\* 'Python %d.%d.%d' % triple
VersionBytes(t) ==
    PythonSp \o str(t[1]) \o <<".">> \o str(t[2]) \o <<".">> \o str(t[3])

Tails == { <<>>, <<"\n">> }

Others == { <<>>, <<"7">>, <<"w", "\n">> }

Tokens == { PythonSp, <<"3">>, <<".">>, <<"x">> }

RECURSIVE Flatten(_)
Flatten(ts) == IF ts = <<>> THEN <<>> ELSE Head(ts) \o Flatten(Tail(ts))

TokenSeqs == UNION { [1..k -> Tokens] : k \in 0..MaxTokens }

\* the result field of a call that has not run yet
Pending == [ok |-> FALSE, exc |-> "pending", args |-> <<>>]

\* a triple that is no version: the process was not made to print one
NoTriple == <<>>

ProbeCall(proc, emitted, stream, other) ==
    [fn |-> "_get_version", proc |-> proc, emitted |-> emitted,
     stream |-> stream, other |-> other, done |-> FALSE, result |-> Pending]

\* processes that print a version line on one stream and `other` on the other one
VersionOutputCall ==
    \E t \in Triples, stream \in {"stdout", "stderr"}, tail \in Tails,
       other \in Others, retcode \in RetCodes :
        last = ProbeCall(IF stream = "stdout"
                         THEN Process("ok", retcode, VersionBytes(t) \o tail, other)
                         ELSE Process("ok", retcode, other, VersionBytes(t) \o tail),
                         t, stream, other)

\* processes that print anything else, split anywhere between the two streams
NoiseOutputCall ==
    \E ts \in TokenSeqs, retcode \in RetCodes :
      \E k \in 0..Len(ts) :
        last = ProbeCall(Process("ok", retcode, Flatten(SubSeq(ts, 1, k)),
                                 Flatten(SubSeq(ts, k + 1, Len(ts)))),
                         NoTriple, None, <<>>)

\* processes whose version line is cut anywhere between stdout and stderr
SplitVersionCall ==
    \E t \in Triples, retcode \in RetCodes :
      \E k \in 1..(Len(VersionBytes(t)) - 1) :
        last = ProbeCall(Process("ok", retcode, SubSeq(VersionBytes(t), 1, k),
                                 SubSeq(VersionBytes(t), k + 1, Len(VersionBytes(t)))),
                         t, "both", <<>>)

\* an executable that cannot be started: Popen raises OSError
UnlaunchableCall ==
    last = ProbeCall(Process("OSError", 0, <<>>, <<>>), NoTriple, None, <<>>)

Dirs == { <<"venv1">>, <<"venv2">> }

\* the two files the validation looks at under directory d
Activate(d) == <<d[1], "bin", "activate">>

Python(d) == <<d[1], "bin", "python">>

Files == UNION { {Activate(d), Python(d)} : d \in Dirs }

ValidateCall ==
    \E path \in Dirs, fs \in SUBSET Files :
        last = [fn |-> "_get_executable_path", path |-> path, fs |-> fs,
                done |-> FALSE, result |-> Pending]

InitProbe ==
    /\ sys = Host(<<3, 6, 5>>)
    /\ envs = <<>>
    /\ gen = NoGen
    /\ callers = NoCallers
    /\ \/ VersionOutputCall
       \/ NoiseOutputCall
       \/ SplitVersionCall
       \/ UnlaunchableCall
       \/ ValidateCall

call__get_version ==
    /\ last.fn = "_get_version"
    /\ ~last.done
    /\ last' = [last EXCEPT !.done = TRUE, !.result = _get_version(last.proc)]
    /\ UNCHANGED <<sys, envs, gen, callers>>

call__get_executable_path ==
    /\ last.fn = "_get_executable_path"
    /\ ~last.done
    /\ last' = [last EXCEPT !.done = TRUE,
                            !.result = _get_executable_path(last.fs, last.path)]
    /\ UNCHANGED <<sys, envs, gen, callers>>

NextProbe ==
    \/ call__get_version
    \/ call__get_executable_path

SpecProbe == InitProbe /\ [][NextProbe]_vars

----------------------------------------------------------------------------
(* Environment and InterpreterEnvironment. *)

\* The executables of the scenarios of Spec and SpecDiscovery, by what they
\* do when they are run with --version.
Behaviours == {"unlaunchable", "exits 1", "prints x", "Python 3.6.5", "Python 2.7.14"}

ProcessOf(behaviour) ==
    CASE behaviour = "unlaunchable" -> Process("OSError", 0, <<>>, <<>>)
      [] behaviour = "exits 1" ->
            Process("ok", 1, VersionBytes(<<3, 6, 5>>) \o <<"\n">>, <<>>)
      [] behaviour = "prints x" -> Process("ok", 0, <<>>, <<"x">>)
      [] behaviour = "Python 3.6.5" ->
            Process("ok", 0, VersionBytes(<<3, 6, 5>>) \o <<"\n">>, <<>>)
      [] behaviour = "Python 2.7.14" ->
            Process("ok", 0, <<>>, VersionBytes(<<2, 7, 14>>) \o <<"\n">>)

SomeProcesses == { ProcessOf(b) : b \in Behaviours }

\* a memoize_method cell of an instance: nothing cached yet
Unset == [state |-> "Unset", result |-> Pending]

\* jedi.cache.memoize_method around a method whose body would end as `body`:
\* the body runs on the first call only, and the cell keeps how it ended
memoize_method(cell, body) ==
    IF cell.state = "Unset"
    THEN [cell |-> [state |-> IF body.ok THEN "Value" ELSE "Failed", result |-> body],
          ran |-> 1, result |-> body]
    ELSE [cell |-> cell, ran |-> 0, result |-> cell.result]

\* The same wrapper in two steps, for callers that run at the same time.  The
\* write of the cell is a critical section: the caller that finds the cell
\* Unset takes it (Pending) and runs the body, a caller that finds it Pending
\* waits, and a caller that finds a result returns it.
PendingCell == [state |-> "Pending", result |-> Pending]

memoize_enter(cell) ==
    IF cell.state = "Unset" THEN [cell |-> PendingCell, pc |-> "body"]
    ELSE IF cell.state = "Pending" THEN [cell |-> cell, pc |-> "blocked"]
    ELSE [cell |-> cell, pc |-> "returned"]

memoize_exit(body) == memoize_method(Unset, body).cell

\* jedi.evaluate.compiled.subprocess.get_subprocess: the worker of an executable
get_subprocess(executable) == [cls |-> "CompiledSubprocess", executable |-> executable]

NoSubprocess == [cls |-> None, executable |-> <<>>]

\* what the worker answers to get_sys_path(): a list of paths, or it fails
SysPathReplies ==
    { Return(<< <<"usr", "lib">> >>),
      Return(<< <<"usr", "lib">>, <<"site-packages">> >>),
      [ok |-> FALSE, exc |-> "SubprocessError", args |-> <<>>] }

EvaluatorSubprocess(id, evaluator, subprocess) ==
    [cls |-> "EvaluatorSubprocess", id |-> id, evaluator |-> evaluator,
     subprocess |-> subprocess]

EvaluatorSameProcess(id, evaluator) ==
    [cls |-> "EvaluatorSameProcess", id |-> id, evaluator |-> evaluator,
     subprocess |-> NoSubprocess]

\* parso.load_grammar(version=version_string): the grammar of that version
load_grammar(version) == Return(<<"g", "r", "a", "m", "m", "a", "r", " ">> \o version)

\* An instance.  An adapter's id is its identity as an object: the instance it
\* was constructed for and its rank among the adapters constructed for it.
\* popen, queries, first_sys_path and channels observe the instance: the version
\* probes started for it, the get_sys_path queries sent to its worker, what its
\* first get_sys_path call gave, and the adapters get_evaluator_subprocess
\* returned.
Instance(cls, path, executable, version_info, popen) ==
    [cls |-> cls, _base_path |-> path, _executable |-> executable,
     version_info |-> version_info, sys_path |-> Unset, grammar |-> Unset,
     popen |-> popen, queries |-> 0,
     first_sys_path |-> Pending, channels |-> <<>>]

Environment_unprobed(path, executable, proc) ==
    Return(Instance("Environment", path, executable, NoTriple, 0))

\* Environment(path, executable): __init__ probes the version
Environment(path, executable, proc) ==
    LET version_info == _get_version(proc)
    IN  IF ~version_info.ok THEN version_info
        ELSE Return(Instance("Environment", path, executable, version_info.value, 1))

\* InterpreterEnvironment()
InterpreterEnvironment ==
    Return(Instance("InterpreterEnvironment", <<>>, <<>>, sys.version_info, 0))

get_default_environment(proc) == Environment(sys.prefix, sys.executable, proc)

\* distutils.spawn.find_executable: the name in a directory of PATH, or NotFound
NotFound == <<>>

find_executable(python_name, found) ==
    IF found THEN <<"usr", "local", "bin", python_name>> ELSE NotFound

get_python_environment(python_name, found, proc) ==
    LET exe == find_executable(python_name, found)
    IN  IF exe = NotFound
        THEN InvalidPythonEnvironment(<<"This executable doesn't exist.">>)
        ELSE Environment(dirname(dirname(exe)), exe, proc)

create_environment(fs, path, proc) ==
    LET executable == _get_executable_path(fs, path)
    IN  IF ~executable.ok THEN executable
        ELSE Environment(path, executable.value, proc)

Environment_get_sys_path_unmemoized(self, reply) ==
    [cell |-> self.sys_path, ran |-> 1, result |-> reply]

Environment_get_sys_path_retrying(self, reply) ==
    IF self.sys_path.state = "Failed"
    THEN memoize_method(Unset, reply)
    ELSE memoize_method(self.sys_path, reply)

\* Environment.get_sys_path: memoized, asks the worker of the executable
Environment_get_sys_path(self, reply) == memoize_method(self.sys_path, reply)

InterpreterEnvironment_get_sys_path_memoized(self) ==
    memoize_method(self.sys_path, Return(sys.path))

\* InterpreterEnvironment.get_sys_path
InterpreterEnvironment_get_sys_path(self) ==
    [cell |-> self.sys_path, ran |-> 0, result |-> Return(sys.path)]

\* _BaseEnvironment.get_grammar: memoized, computed from version_info
get_grammar(self) ==
    memoize_method(self.grammar,
                   load_grammar(version_string(self.version_info[1],
                                               self.version_info[2])))

\* The cell of a memoized method of an instance, and the instance with that
\* cell replaced
MemoizedMethods == { "get_sys_path", "get_grammar" }

cell_of(self, method) ==
    IF method = "get_sys_path" THEN self.sys_path ELSE self.grammar

with_cell(self, method, cell) ==
    IF method = "get_sys_path" THEN [self EXCEPT !.sys_path = cell]
    ELSE [self EXCEPT !.grammar = cell]

memoized_call_undecorated(self, method) ==
    [cell |-> cell_of(self, method), pc |-> "body"]

\* A call of get_sys_path or get_grammar arrives at the wrapper of the method
memoized_call(self, method) == memoize_enter(cell_of(self, method))

Environment_get_evaluator_subprocess_memoized(self, id, evaluator) ==
    IF self.channels # <<>> THEN self.channels[1]
    ELSE EvaluatorSubprocess(id, evaluator, get_subprocess(self._executable))

Environment_get_evaluator_subprocess_by_version(self, id, evaluator) ==
    IF self.version_info = sys.version_info
    THEN EvaluatorSameProcess(id, evaluator)
    ELSE EvaluatorSubprocess(id, evaluator, get_subprocess(self._executable))

\* Environment.get_evaluator_subprocess
Environment_get_evaluator_subprocess(self, id, evaluator) ==
    EvaluatorSubprocess(id, evaluator, get_subprocess(self._executable))

\* InterpreterEnvironment.get_evaluator_subprocess
InterpreterEnvironment_get_evaluator_subprocess(self, id, evaluator) ==
    EvaluatorSameProcess(id, evaluator)

----------------------------------------------------------------------------
(* The caller creates instances and uses them. *)

\* 'python' + version_string
python_name_of(tag) == <<"p", "y", "t", "h", "o", "n">> \o tag

PythonNames == { python_name_of(_SUPPORTED_PYTHONS[1]) }

\* the directory the caller gives to create_environment
CallerDirs == { <<"venv1">> }

Evaluators == { "evaluator" }

\* the live instances after a constructor call that ended as r
Constructed(r) == IF r.ok THEN Append(envs, r.value) ELSE envs

\* what the caller gets from a constructor call that ended as r: the reference
\* of the new instance (its position), or the exception; ran counts the
\* processes the call started
ConstructorCall(fn, r, popen) ==
    [fn |-> fn, self |-> 0, ran |-> popen,
     result |-> IF r.ok THEN Return(Len(envs) + 1) ELSE r]

\* The Popen calls of one Environment(path, executable): the one of _get_version
Environment_popen == 1

\* The Popen calls made while a factory runs.  The argument of Environment()
\* is evaluated first, and when that raises __init__ does not run.
get_default_environment_popen == Environment_popen

create_environment_popen(fs, path) ==
    IF _get_executable_path(fs, path).ok THEN Environment_popen ELSE 0

get_python_environment_popen(python_name, found) ==
    IF find_executable(python_name, found) = NotFound THEN 0 ELSE Environment_popen

call_get_default_environment ==
    /\ Len(envs) < MaxEnvs
    /\ \E proc \in SomeProcesses :
        LET r == get_default_environment(proc)
        IN  /\ envs' = Constructed(r)
            /\ last' = ConstructorCall("get_default_environment", r,
                                       get_default_environment_popen)
    /\ UNCHANGED <<sys, gen, callers>>

call_create_environment ==
    /\ Len(envs) < MaxEnvs
    /\ \E path \in CallerDirs, proc \in SomeProcesses :
      \E fs \in SUBSET {Activate(path), Python(path)} :
        LET r == create_environment(fs, path, proc)
        IN  /\ envs' = Constructed(r)
            /\ last' = ConstructorCall("create_environment", r,
                                       create_environment_popen(fs, path))
                        @@ [path |-> path, fs |-> fs]
    /\ UNCHANGED <<sys, gen, callers>>

call_get_python_environment ==
    /\ Len(envs) < MaxEnvs
    /\ \E python_name \in PythonNames, found \in BOOLEAN, proc \in SomeProcesses :
        LET r == get_python_environment(python_name, found, proc)
        IN  /\ envs' = Constructed(r)
            /\ last' = ConstructorCall("get_python_environment", r,
                                       get_python_environment_popen(python_name, found))
    /\ UNCHANGED <<sys, gen, callers>>

call_InterpreterEnvironment ==
    /\ Len(envs) < MaxEnvs
    /\ envs' = Constructed(InterpreterEnvironment)
    /\ last' = ConstructorCall("InterpreterEnvironment", InterpreterEnvironment, 0)
    /\ UNCHANGED <<sys, gen, callers>>

\* env.version_info
read_version_info ==
    \E i \in 1..Len(envs) :
        /\ last' = [fn |-> "version_info", self |-> i, ran |-> 0,
                    result |-> Return(envs[i].version_info)]
        /\ UNCHANGED <<sys, envs, gen, callers>>

call_get_sys_path ==
    \E i \in 1..Len(envs), reply \in SysPathReplies :
        LET self == envs[i]
            r == IF self.cls = "Environment"
                 THEN Environment_get_sys_path(self, reply)
                 ELSE InterpreterEnvironment_get_sys_path(self)
        IN  /\ self.queries + r.ran <= MaxCalls
            /\ envs' = [envs EXCEPT
                          ![i].sys_path = r.cell,
                          ![i].queries = @ + r.ran,
                          ![i].first_sys_path = IF @ = Pending THEN r.result ELSE @]
            /\ last' = [fn |-> "get_sys_path", self |-> i, ran |-> r.ran,
                        result |-> r.result]
            /\ UNCHANGED <<sys, gen, callers>>

call_get_evaluator_subprocess ==
    \E i \in 1..Len(envs), evaluator \in Evaluators :
        LET self == envs[i]
            id == <<i, Len(self.channels) + 1>>
            r == IF self.cls = "Environment"
                 THEN Environment_get_evaluator_subprocess(self, id, evaluator)
                 ELSE InterpreterEnvironment_get_evaluator_subprocess(self, id, evaluator)
        IN  /\ Len(self.channels) < MaxCalls
            /\ envs' = [envs EXCEPT ![i].channels = Append(@, r)]
            /\ last' = [fn |-> "get_evaluator_subprocess", self |-> i, ran |-> 0,
                        result |-> Return(r)]
            /\ UNCHANGED <<sys, gen, callers>>

call_get_grammar_reprobing ==
    \E i \in 1..Len(envs), proc \in SomeProcesses :
        LET self == envs[i]
            version_info == _get_version(proc)
            r == get_grammar(IF version_info.ok
                             THEN [self EXCEPT !.version_info = version_info.value]
                             ELSE self)
        IN  /\ envs' = [envs EXCEPT
                          ![i].grammar = r.cell,
                          ![i].version_info = IF version_info.ok
                                              THEN version_info.value ELSE @]
            /\ last' = [fn |-> "get_grammar", self |-> i, ran |-> 0,
                        result |-> r.result]
            /\ UNCHANGED <<sys, gen, callers>>

\* env.get_grammar()
call_get_grammar ==
    \E i \in 1..Len(envs) :
        LET self == envs[i]
            r == get_grammar(self)
        IN  /\ envs' = [envs EXCEPT ![i].grammar = r.cell]
            /\ last' = [fn |-> "get_grammar", self |-> i, ran |-> 0,
                        result |-> r.result]
            /\ UNCHANGED <<sys, gen, callers>>

\* the host program changes its own search path: sys.path.append(...)
sys_path_append ==
    /\ Len(sys.path) < MaxSysPath
    /\ sys' = [sys EXCEPT !.path = Append(@, <<"extra", str(Len(@))>>)]
    /\ last' = [fn |-> "sys.path.append", self |-> 0, ran |-> 0,
                result |-> Return(None)]
    /\ UNCHANGED <<envs, gen, callers>>

Next ==
    \/ sys_path_append
    \/ call_get_default_environment
    \/ call_create_environment
    \/ call_get_python_environment
    \/ call_InterpreterEnvironment
    \/ read_version_info
    \/ call_get_sys_path
    \/ call_get_grammar
    \/ call_get_evaluator_subprocess

Spec == Init /\ [][Next]_vars

----------------------------------------------------------------------------
(* Discovery: the generators find_virtualenvs and find_python_environments. *)

(***************************************************************************)
(* A generator object holds its arguments, the position i of the loop, the *)
(* instances it has yielded (each with the position that yielded it) and    *)
(* its status: "created" before the first next(), "suspended" at a yield,  *)
(* "exhausted" after StopIteration, "raised" when an exception left it.    *)
(* world[k] is what the machine answers at position k: the files that      *)
(* exist (or whether the name is found) and the behaviour of the           *)
(* executable.  probed lists the positions whose executable was run.       *)
(***************************************************************************)
Generator(fn, paths, world) ==
    [fn |-> fn, paths |-> paths, world |-> world, i |-> 1, yielded |-> <<>>,
     probed |-> <<>>, status |-> "created", error |-> Pending]

find_virtualenvs_stop_at_invalid(g) ==
    IF g.i > Len(g.paths) THEN [g EXCEPT !.status = "exhausted"]
    ELSE
    LET path == g.paths[g.i]
        executable == _get_executable_path(g.world[g.i].fs, path)
        env == IF executable.ok
               THEN Environment(path, executable.value, ProcessOf(g.world[g.i].proc))
               ELSE executable
        probed == IF executable.ok THEN Append(g.probed, g.i) ELSE g.probed
    IN  IF env.ok
        THEN [g EXCEPT !.i = @ + 1, !.probed = probed, !.status = "suspended",
                       !.yielded = Append(@, [at |-> g.i, env |-> env.value])]
        ELSE [g EXCEPT !.i = @ + 1, !.probed = probed, !.status = "exhausted"]

RECURSIVE find_virtualenvs_probe_first(_)
find_virtualenvs_probe_first(g) ==
    IF g.i > Len(g.paths) THEN [g EXCEPT !.status = "exhausted"]
    ELSE
    LET path == g.paths[g.i]
        executable == _get_executable_path(g.world[g.i].fs, path)
        env == IF executable.ok
               THEN Environment(path, executable.value, ProcessOf(g.world[g.i].proc))
               ELSE executable
        probed == Append(g.probed, g.i)
    IN  IF env.ok
        THEN [g EXCEPT !.i = @ + 1, !.probed = probed, !.status = "suspended",
                       !.yielded = Append(@, [at |-> g.i, env |-> env.value])]
        ELSE find_virtualenvs_probe_first([g EXCEPT !.i = @ + 1, !.probed = probed])

\* next() on find_virtualenvs(paths): the loop runs to its next yield or to its end
RECURSIVE find_virtualenvs(_)
find_virtualenvs(g) ==
    IF g.i > Len(g.paths) THEN [g EXCEPT !.status = "exhausted"]
    ELSE
    LET path == g.paths[g.i]
        executable == _get_executable_path(g.world[g.i].fs, path)
        env == IF executable.ok
               THEN Environment(path, executable.value, ProcessOf(g.world[g.i].proc))
               ELSE executable
        probed == IF executable.ok THEN Append(g.probed, g.i) ELSE g.probed
    IN  IF env.ok
        THEN [g EXCEPT !.i = @ + 1, !.probed = probed, !.status = "suspended",
                       !.yielded = Append(@, [at |-> g.i, env |-> env.value])]
        ELSE IF env.exc = "InvalidPythonEnvironment"
        THEN find_virtualenvs([g EXCEPT !.i = @ + 1, !.probed = probed])
        ELSE [g EXCEPT !.probed = probed, !.status = "raised", !.error = env]

\* next() on find_python_environments()
RECURSIVE find_python_environments(_)
find_python_environments(g) ==
    IF g.i > Len(_SUPPORTED_PYTHONS) THEN [g EXCEPT !.status = "exhausted"]
    ELSE
    LET current_version == version_string(sys.version_info[1], sys.version_info[2])
        version_string_i == _SUPPORTED_PYTHONS[g.i]
        w == g.world[g.i]
    IN  IF version_string_i = current_version
        THEN LET env == get_default_environment(ProcessOf(w.proc))
             IN  IF env.ok
                 THEN [g EXCEPT !.i = @ + 1, !.probed = Append(@, g.i),
                                !.status = "suspended",
                                !.yielded = Append(@, [at |-> g.i, env |-> env.value])]
                 ELSE [g EXCEPT !.probed = Append(@, g.i), !.status = "raised",
                                !.error = env]
        ELSE LET env == get_python_environment(python_name_of(version_string_i),
                                               w.found, ProcessOf(w.proc))
                 probed == IF w.found THEN Append(g.probed, g.i) ELSE g.probed
             IN  IF env.ok
                 THEN [g EXCEPT !.i = @ + 1, !.probed = probed,
                                !.status = "suspended",
                                !.yielded = Append(@, [at |-> g.i, env |-> env.value])]
                 ELSE IF env.exc = "InvalidPythonEnvironment"
                 THEN find_python_environments([g EXCEPT !.i = @ + 1, !.probed = probed])
                 ELSE [g EXCEPT !.probed = probed, !.status = "raised", !.error = env]

\* the behaviour given to a position whose executable is not there
Unused == "unlaunchable"

\* a path of the list with what the directory holds and what its bin/python
\* does if it is there
Candidates ==
    UNION { { [path |-> path, fs |-> fs, proc |-> Unused] :
                fs \in (SUBSET {Activate(path), Python(path)})
                        \ {{Activate(path), Python(path)}} }
            \cup { [path |-> path, fs |-> {Activate(path), Python(path)}, proc |-> b] :
                    b \in Behaviours } :
            path \in Dirs }

\* whether 'python' + tag is on the PATH, and what it does if it is
NameWorlds ==
    { [found |-> FALSE, proc |-> Unused] }
    \cup { [found |-> TRUE, proc |-> b] : b \in Behaviours }

\* the paths argument of find_virtualenvs: left out (None), or a list
default_paths(given, paths) == IF ~given THEN <<>> ELSE paths

InitDiscovery ==
    /\ sys \in Hosts
    /\ envs = <<>>
    /\ gen = NoGen
    /\ last = NoCall
    /\ callers = NoCallers

\* find_virtualenvs(paths) or find_virtualenvs(): creates the generator, runs nothing
call_find_virtualenvs ==
    /\ gen = NoGen
    /\ last = NoCall
    /\ \E given \in BOOLEAN, n \in 0..MaxPaths :
        /\ given \/ n = 0
        /\ \E cs \in [1..n -> Candidates] :
            gen' = Generator("find_virtualenvs",
                             default_paths(given, [k \in 1..n |-> cs[k].path]),
                             [k \in 1..n |-> [fs |-> cs[k].fs, proc |-> cs[k].proc]])
    /\ UNCHANGED <<sys, envs, last, callers>>

call_find_python_environments ==
    /\ gen = NoGen
    /\ last = NoCall
    /\ \E world \in [1..Len(_SUPPORTED_PYTHONS) -> NameWorlds] :
        gen' = Generator("find_python_environments", <<>>, world)
    /\ UNCHANGED <<sys, envs, last, callers>>

next_find_virtualenvs ==
    /\ gen.fn = "find_virtualenvs"
    /\ gen.status \in {"created", "suspended"}
    /\ gen' = find_virtualenvs(gen)
    /\ UNCHANGED <<sys, envs, last, callers>>

next_find_python_environments ==
    /\ gen.fn = "find_python_environments"
    /\ gen.status \in {"created", "suspended"}
    /\ gen' = find_python_environments(gen)
    /\ UNCHANGED <<sys, envs, last, callers>>

\* create_environment(path) as the one call of the scenario, in place of an
\* enumeration
first_create_environment ==
    /\ gen = NoGen
    /\ last = NoCall
    /\ call_create_environment

NextDiscovery ==
    \/ first_create_environment
    \/ call_find_virtualenvs
    \/ call_find_python_environments
    \/ next_find_virtualenvs
    \/ next_find_python_environments

SpecDiscovery == InitDiscovery /\ [][NextDiscovery]_vars

----------------------------------------------------------------------------
(* Callers that use the same instances at the same time. *)

Idle ==
    [pc |-> "idle", self |-> 0, method |-> None, ran |-> 0, waited |-> FALSE,
     result |-> Pending]

InitConcurrent ==
    /\ sys = Host(<<3, 6, 5>>)
    /\ envs = <<>>
    /\ gen = NoGen
    /\ last = NoCall
    /\ callers = [t \in 1..MaxCallers |-> Idle]

\* caller t calls env.get_sys_path() or env.get_grammar() and reaches the wrapper
enter_memoized ==
    \E t \in 1..Len(callers), i \in 1..Len(envs), method \in MemoizedMethods :
        LET e == memoized_call(envs[i], method)
        IN  /\ callers[t].pc = "idle"
            /\ envs[i].cls = "Environment"
            /\ envs' = [envs EXCEPT ![i] = with_cell(@, method, e.cell)]
            /\ callers' = [callers EXCEPT
                             ![t] = [pc |-> e.pc, self |-> i, method |-> method,
                                     ran |-> 0, waited |-> e.pc = "blocked",
                                     result |-> IF e.pc = "returned"
                                                THEN e.cell.result ELSE Pending]]
            /\ UNCHANGED <<sys, gen, last>>

\* the body of get_sys_path, run by caller t: line 58
run_get_sys_path ==
    \E t \in 1..Len(callers), reply \in SysPathReplies :
        LET i == callers[t].self
        IN  /\ callers[t].pc = "body"
            /\ callers[t].method = "get_sys_path"
            /\ envs' = [envs EXCEPT ![i].sys_path = memoize_exit(reply),
                                    ![i].queries = @ + 1,
                                    ![i].first_sys_path =
                                        IF @ = Pending THEN reply ELSE @]
            /\ callers' = [callers EXCEPT ![t].pc = "returned", ![t].ran = 1,
                                          ![t].result = reply]
            /\ UNCHANGED <<sys, gen, last>>

\* the body of get_grammar, run by caller t: lines 32-33
run_get_grammar ==
    \E t \in 1..Len(callers) :
        LET i == callers[t].self
            grammar == load_grammar(version_string(envs[i].version_info[1],
                                                   envs[i].version_info[2]))
        IN  /\ callers[t].pc = "body"
            /\ callers[t].method = "get_grammar"
            /\ envs' = [envs EXCEPT ![i].grammar = memoize_exit(grammar)]
            /\ callers' = [callers EXCEPT ![t].pc = "returned", ![t].ran = 1,
                                          ![t].result = grammar]
            /\ UNCHANGED <<sys, gen, last>>

\* a caller that waited goes on when the cell has its result
resume_memoized ==
    \E t \in 1..Len(callers) :
        LET c == cell_of(envs[callers[t].self], callers[t].method)
        IN  /\ callers[t].pc = "blocked"
            /\ c.state \in {"Value", "Failed"}
            /\ callers' = [callers EXCEPT ![t].pc = "returned",
                                          ![t].result = c.result]
            /\ UNCHANGED <<sys, envs, gen, last>>

NextConcurrent ==
    \/ call_get_default_environment
    \/ enter_memoized
    \/ run_get_sys_path
    \/ run_get_grammar
    \/ resume_memoized

SpecConcurrent == InitConcurrent /\ [][NextConcurrent]_vars

----------------------------------------------------------------------------
(* Claims about concurrent callers, under SpecConcurrent. *)

\* the callers that are in, or have left, a call of method on instance i
CallersOf(i, method) ==
    { t \in 1..Len(callers) : callers[t].self = i /\ callers[t].method = method }

----------------------------------------------------------------------------
(* Claims about instances, under Spec. *)

Live == 1..Len(envs)

\* C1: on one instance at most one version probe and at most one get_sys_path
\* query of the worker are ever made, whatever the sequence of accesses; a
\* get_sys_path call on an Environment after the first one asks nothing and
\* gives what the first call gave, and reading version_info starts nothing
\* and gives the version the instance holds.
C1_AtMostOneInvocationPerField ==
    /\ \A i \in Live : envs[i].popen <= 1 /\ envs[i].queries <= 1
    /\ (last.fn = "get_sys_path" /\ envs[last.self].cls = "Environment")
         => /\ last.result = envs[last.self].first_sys_path
            /\ (envs[last.self].queries = 1 /\ last.ran = 1)
                 \/ last.ran = 0
    /\ last.fn = "version_info"
         => last.ran = 0 /\ last.result = Return(envs[last.self].version_info)

C1_Witness ==
    /\ last.fn = "get_sys_path"
    /\ last.ran = 0
    /\ envs[last.self].cls = "Environment"
    /\ envs[last.self].queries = 1
    /\ envs[last.self].popen = 1
    /\ last.result = Return(<< <<"usr", "lib">>, <<"site-packages">> >>)

\* C2: the kind of the adapter depends only on the class of the instance:
\* every adapter an InterpreterEnvironment returned is an EvaluatorSameProcess
\* and every adapter an Environment returned is an EvaluatorSubprocess on the
\* worker of its executable, also when the Environment is the host's own
\* installation or has the host's version.
C2_ChannelKindFollowsClass ==
    \A i \in Live : \A k \in 1..Len(envs[i].channels) :
        LET c == envs[i].channels[k]
        IN  /\ envs[i].cls = "InterpreterEnvironment"
                => c.cls = "EvaluatorSameProcess"
            /\ envs[i].cls = "Environment"
                => /\ c.cls = "EvaluatorSubprocess"
                   /\ c.subprocess.executable = envs[i]._executable

C2_Witness ==
    \E i \in Live :
        /\ envs[i].cls = "Environment"
        /\ envs[i]._executable = sys.executable
        /\ envs[i]._base_path = sys.prefix
        /\ envs[i].version_info = sys.version_info
        /\ Len(envs[i].channels) >= 1
        /\ envs[i].channels[1].cls = "EvaluatorSubprocess"

\* C14: an InterpreterEnvironment never starts a process: its construction,
\* the reads of its version and its get_sys_path calls start none and ask no
\* worker, in any sequence of calls; its version is the host's
\* sys.version_info[:3]; its get_sys_path gives the host's sys.path as it is
\* at the time of the call.
C14_InterpreterEnvironmentInProcess ==
    /\ \A i \in Live :
          envs[i].cls = "InterpreterEnvironment"
              => /\ envs[i].popen = 0
                 /\ envs[i].queries = 0
                 /\ envs[i].version_info = sys.version_info
    /\ last.fn = "InterpreterEnvironment"
          => (last.ran = 0 /\ last.result.ok)
    /\ (last.fn = "version_info" /\ envs[last.self].cls = "InterpreterEnvironment")
          => (last.ran = 0 /\ last.result = Return(sys.version_info))
    /\ (last.fn = "get_sys_path" /\ envs[last.self].cls = "InterpreterEnvironment")
          => (last.ran = 0 /\ last.result = Return(sys.path))

C14_Witness ==
    /\ last.fn = "get_sys_path"
    /\ envs[last.self].cls = "InterpreterEnvironment"
    /\ envs[last.self].first_sys_path.ok
    /\ envs[last.self].first_sys_path # last.result
    /\ last.result = Return(sys.path)
    /\ envs[last.self].popen = 0

\* C15: at most one InterpreterEnvironment instance exists: every request for
\* the interpreter environment returns the one instance, so the live instances
\* never hold two of that class.
C15_AtMostOneInterpreterEnvironment ==
    \A i, j \in Live :
        ( /\ envs[i].cls = "InterpreterEnvironment"
          /\ envs[j].cls = "InterpreterEnvironment" ) => i = j

\* C16: no step changes the version, the base path or the executable of an
\* instance that exists: get_sys_path, get_grammar, get_evaluator_subprocess,
\* the reads of the version and the construction of further instances leave
\* them as the constructor set them, and no instance disappears.
C16_VersionAndIdentityNeverChange ==
    [][ /\ Len(envs') >= Len(envs)
        /\ \A i \in 1..Len(envs) :
              /\ envs'[i].version_info = envs[i].version_info
              /\ envs'[i]._base_path = envs[i]._base_path
              /\ envs'[i]._executable = envs[i]._executable ]_vars

C16_Witness ==
    /\ Len(envs) = 2
    /\ envs[1].cls = "Environment"
    /\ envs[1].version_info = <<2, 7, 14>>
    /\ envs[1].sys_path.state = "Value"
    /\ envs[1].grammar.state = "Value"
    /\ Len(envs[1].channels) >= 1
    /\ envs[2].cls = "Environment"
    /\ envs[2]._executable = envs[1]._executable
    /\ envs[2].version_info = <<3, 6, 5>>
    /\ last.fn = "get_grammar" /\ last.self = 1
    /\ last.result = load_grammar(<<"2", ".", "7">>)

C9_DefaultEnvironmentUnprobed ==
    (last.fn = "get_default_environment" /\ last.result.ok)
        => envs[last.result.value].popen = 0

\* C9 as amended: the constructor probes.  An Environment of the host's own
\* executable has had exactly one version probe since get_default_environment
\* returned and holds the probed version; reading its version starts none.
C9_DefaultEnvironmentProbedOnce ==
    /\ \A i \in Live :
          (envs[i].cls = "Environment" /\ envs[i]._executable = sys.executable)
              => /\ envs[i].popen = 1
                 /\ envs[i]._base_path = sys.prefix
                 /\ Len(envs[i].version_info) = 3
    /\ (last.fn = "get_default_environment" /\ last.result.ok)
          => /\ envs[last.result.value].cls = "Environment"
             /\ envs[last.result.value]._executable = sys.executable
    /\ last.fn = "version_info" => last.ran = 0

C9_Witness ==
    /\ last.fn = "version_info"
    /\ envs[last.self].cls = "Environment"
    /\ envs[last.self]._executable = sys.executable
    /\ envs[last.self].popen = 1
    /\ last.result = Return(<<2, 7, 14>>)

\* C10 as claimed: the adapter is constructed on the first call only and every
\* later call returns that same adapter.
C10_OneChannelPerEnvironment ==
    \A i \in Live : \A k \in 1..Len(envs[i].channels) :
        envs[i].channels[k] = envs[i].channels[1]

\* C10 as amended: every get_evaluator_subprocess call constructs a new
\* adapter: the adapters one instance returned are pairwise distinct objects,
\* all of the same kind, and the call returns the adapter it constructed.
C10_NewChannelPerCall ==
    /\ \A i \in Live : \A j, k \in 1..Len(envs[i].channels) :
          /\ j # k => envs[i].channels[j].id # envs[i].channels[k].id
          /\ envs[i].channels[j].cls = envs[i].channels[k].cls
    /\ last.fn = "get_evaluator_subprocess"
          => /\ Len(envs[last.self].channels) >= 1
             /\ last.result =
                  Return(envs[last.self].channels[Len(envs[last.self].channels)])

C10_Witness ==
    \E i \in Live :
        /\ Len(envs[i].channels) = 2
        /\ envs[i].cls = "Environment"
        /\ envs[i].channels[1].id # envs[i].channels[2].id
        /\ last.fn = "get_evaluator_subprocess" /\ last.self = i

----------------------------------------------------------------------------
(* Claims about the validation and the probe, under SpecProbe. *)

C5_ParsesEmittedTriple ==
    ( /\ last.fn = "_get_version" /\ last.done
      /\ last.emitted # NoTriple
      /\ last.other = <<>>
      /\ last.proc.retcode = 0 )
    => last.result = Return(last.emitted)

C5_Witness ==
    /\ last.fn = "_get_version" /\ last.done
    /\ last.emitted = <<3, 10, 0>>
    /\ last.stream = "stderr"
    /\ last.proc.stdout = <<>>
    /\ last.proc.retcode = 0
    /\ last.result = Return(<<3, 10, 0>>)

AllDigits(s) == \A k \in 1..Len(s) : IsDigit(s[k])

\* the output begins with 'Python ', digits, '.', digits, '.', digits
CompleteVersion(output) ==
    /\ Len(output) >= Len(PythonSp)
    /\ SubSeq(output, 1, Len(PythonSp)) = PythonSp
    /\ \E i \in (Len(PythonSp) + 2)..Len(output) :
          /\ output[i] = "."
          /\ AllDigits(SubSeq(output, Len(PythonSp) + 1, i - 1))
          /\ \E j \in (i + 2)..Len(output) :
                /\ output[j] = "."
                /\ AllDigits(SubSeq(output, i + 1, j - 1))
                /\ \E k \in (j + 1)..Len(output) :
                      AllDigits(SubSeq(output, j + 1, k))

\* C6: when the output is empty or does not begin with a complete 'Python
\* major.minor.micro', _get_version raises InvalidPythonEnvironment; whatever
\* the output, a returned value is a triple of three numbers.
C6_MalformedOutputRaises ==
    (last.fn = "_get_version" /\ last.done) =>
        /\ ( /\ last.proc.launch = "ok" /\ last.proc.retcode = 0
             /\ ~CompleteVersion(last.proc.stdout \o last.proc.stderr) )
           => last.result = InvalidPythonEnvironment(<<>>)
        /\ last.result.ok =>
             /\ Len(last.result.value) = 3
             /\ \A k \in 1..3 : last.result.value[k] \in Nat
             /\ CompleteVersion(last.proc.stdout \o last.proc.stderr)

C6_Witness ==
    /\ last.fn = "_get_version" /\ last.done
    /\ last.proc.retcode = 0
    /\ last.proc.stdout \o last.proc.stderr = PythonSp \o <<"3", ".", "3">>
    /\ last.result = InvalidPythonEnvironment(<<>>)

\* why a probe fails, in the words of the specification
FailureCause(proc) ==
    IF proc.launch = "OSError" THEN "ProcessLaunchFailure"
    ELSE IF proc.retcode # 0 THEN "NonZeroExit"
    ELSE IF ~CompleteVersion(proc.stdout \o proc.stderr) THEN "UnparsableVersion"
    ELSE "none"

\* one failing process of each cause
ReferenceFailures ==
    { Process("OSError", 0, <<>>, <<>>),
      Process("ok", 1, VersionBytes(<<3, 6, 5>>), <<>>),
      Process("ok", 0, <<>>, <<>>) }

\* C7 as claimed: a failed probe is distinguishable from the failure of any
\* process that fails for another cause.
C7_FailuresDistinguishable ==
    (last.fn = "_get_version" /\ last.done /\ ~last.result.ok) =>
        \A p \in ReferenceFailures :
            FailureCause(p) # FailureCause(last.proc)
                => _get_version(p) # last.result

\* C7 as amended: a triple is returned only when the process started and
\* exited with code zero; a non-zero exit code, whatever the output, and a
\* launch failure both raise; every failure of the probe is the same
\* InvalidPythonEnvironment without arguments.
C7_TripleOnlyOnCleanExit ==
    (last.fn = "_get_version" /\ last.done) =>
        /\ last.result.ok => (last.proc.launch = "ok" /\ last.proc.retcode = 0)
        /\ (last.proc.launch = "OSError" \/ last.proc.retcode # 0)
              => ~last.result.ok
        /\ ~last.result.ok => last.result = InvalidPythonEnvironment(<<>>)

C7_Witness ==
    /\ last.fn = "_get_version" /\ last.done
    /\ last.proc.retcode = 1
    /\ last.emitted = <<3, 6, 5>>
    /\ last.other = <<>>
    /\ last.result = InvalidPythonEnvironment(<<>>)

\* s is the beginning of some output the pattern matches: a beginning of
\* 'Python ', or 'Python ' and a beginning of digits '.' digits '.' digits
IsVersionPrefix(s) ==
    IF Len(s) <= Len(PythonSp)
    THEN \A k \in 1..Len(s) : s[k] = PythonSp[k]
    ELSE /\ StartsWith(s, PythonSp, 1)
         /\ LET a0 == Len(PythonSp) + 1
                a1 == DigitsEnd(s, a0)
                b1 == DigitsEnd(s, a1 + 1)
                c1 == DigitsEnd(s, b1 + 1)
            IN  \/ a1 > Len(s)
                \/ /\ a1 > a0 /\ s[a1] = "."
                   /\ \/ b1 > Len(s)
                      \/ /\ b1 > a1 + 1 /\ s[b1] = "."
                         /\ c1 > Len(s)

\* C18 as claimed: with stdout empty stderr decides; a stdout that begins
\* with a version gives the triple stdout alone would give, whatever stderr
\* holds; a non-empty stdout that does not begin with a version makes the
\* probe fail.
C18_StdoutDecidesWhenNonEmpty ==
    ( /\ last.fn = "_get_version" /\ last.done
      /\ last.proc.launch = "ok" /\ last.proc.retcode = 0 )
    => /\ last.proc.stdout = <<>>
            => (last.result.ok <=> CompleteVersion(last.proc.stderr))
       /\ CompleteVersion(last.proc.stdout)
            => last.result = _get_version(Process("ok", 0, last.proc.stdout, <<>>))
       /\ (last.proc.stdout # <<>> /\ ~CompleteVersion(last.proc.stdout))
            => ~last.result.ok

\* C18 as amended: the match is made on stdout followed by stderr, so bytes of
\* stderr continue what stdout began.  With stdout empty stderr decides; a
\* version line on stdout that ends with a newline gives its triple whatever
\* stderr holds; a non-empty stdout that neither begins with a version nor is
\* the beginning of one makes the probe fail, also with a version on stderr;
\* and the probe succeeds exactly when stdout + stderr begins with a version.
C18_MatchOnStdoutThenStderr ==
    ( /\ last.fn = "_get_version" /\ last.done
      /\ last.proc.launch = "ok" /\ last.proc.retcode = 0 )
    => /\ last.proc.stdout = <<>>
            => (last.result.ok <=> CompleteVersion(last.proc.stderr))
       /\ ( /\ last.stream = "stdout"
            /\ last.proc.stdout = VersionBytes(last.emitted) \o <<"\n">> )
            => last.result = Return(last.emitted)
       /\ ( /\ last.proc.stdout # <<>>
            /\ ~CompleteVersion(last.proc.stdout)
            /\ ~IsVersionPrefix(last.proc.stdout) )
            => ~last.result.ok
       /\ last.result.ok
            <=> CompleteVersion(last.proc.stdout \o last.proc.stderr)

C18_Witness ==
    /\ last.fn = "_get_version" /\ last.done
    /\ last.proc.retcode = 0
    /\ last.proc.stdout = PythonSp \o <<"3", ".">>
    /\ last.proc.stderr = <<"6", ".", "5">>
    /\ last.result = Return(<<3, 6, 5>>)

----------------------------------------------------------------------------
(* Claims about discovery, under SpecDiscovery. *)

\* the directory at position k of the list passes the validation
ValidAt(k) ==
    /\ <<gen.paths[k][1], "bin", "activate">> \in gen.world[k].fs
    /\ <<gen.paths[k][1], "bin", "python">> \in gen.world[k].fs

\* the executable of position k starts, exits with 0 and prints a version
ProbeSucceedsAt(k) ==
    LET proc == ProcessOf(gen.world[k].proc)
    IN  /\ proc.launch = "ok"
        /\ proc.retcode = 0
        /\ CompleteVersion(proc.stdout \o proc.stderr)

\* the positions of the list that yielded an instance, in the order of the yields
YieldedAt == [n \in 1..Len(gen.yielded) |-> gen.yielded[n].at]

Increasing(f) == \A m, n \in 1..Len(f) : m < n => f[m] < f[n]

\* C3 as claimed: find_virtualenvs, fully consumed, has yielded exactly one
\* Environment per path that passes the validation, in the order of the list,
\* and has not raised.
C3_YieldsEveryValidPath ==
    (gen.fn = "find_virtualenvs" /\ gen.status = "exhausted") =>
        /\ Increasing(YieldedAt)
        /\ { YieldedAt[n] : n \in 1..Len(YieldedAt) }
             = { k \in 1..Len(gen.paths) : ValidAt(k) }

\* C3 as amended: find_virtualenvs never raises and, fully consumed, has
\* yielded exactly one Environment per path that passes the validation and
\* whose bin/python passes the version probe of the constructor, in the order
\* of the list, each with that path and path/bin/python; a path that fails
\* either yields nothing and the paths after it are still processed.
C3_YieldsEveryValidProbedPath ==
    gen.fn = "find_virtualenvs" =>
        /\ gen.status # "raised"
        /\ Increasing(YieldedAt)
        /\ { YieldedAt[n] : n \in 1..Len(YieldedAt) }
             = { k \in 1..(gen.i - 1) : ValidAt(k) /\ ProbeSucceedsAt(k) }
        /\ gen.status = "exhausted" => gen.i = Len(gen.paths) + 1
        /\ \A n \in 1..Len(gen.yielded) :
              /\ gen.yielded[n].env.cls = "Environment"
              /\ gen.yielded[n].env._base_path = gen.paths[gen.yielded[n].at]
              /\ gen.yielded[n].env._executable
                   = <<gen.paths[gen.yielded[n].at][1], "bin", "python">>

C3_Witness ==
    /\ gen.fn = "find_virtualenvs" /\ gen.status = "exhausted"
    /\ Len(gen.paths) = 3
    /\ ~ValidAt(1)
    /\ ValidAt(2) /\ ~ProbeSucceedsAt(2)
    /\ ValidAt(3) /\ ProbeSucceedsAt(3)
    /\ Len(gen.yielded) = 1 /\ gen.yielded[1].at = 3

\* the tag of the host, '%s.%s' % (major, minor)
current_version == version_string(sys.version_info[1], sys.version_info[2])

\* position k of _SUPPORTED_PYTHONS is the host's tag
HostTagAt(k) == _SUPPORTED_PYTHONS[k] = current_version

\* 'python' + tag of position k is found and passes the probe
NameSucceedsAt(k) == gen.world[k].found /\ ProbeSucceedsAt(k)

\* C13: find_python_environments visits the tags once each in the order of
\* the list and stops after the last one and nowhere else; it has yielded, in
\* the order of the tags and one per tag, the host's installation at the
\* host's tag if that tag is in the list, and an Environment at every other
\* tag it has passed whose name was found and passed the probe; a tag whose
\* name is not found or fails the probe yields nothing.
C13_VisitsEveryTagInOrder ==
    gen.fn = "find_python_environments" =>
        /\ gen.status \in {"exhausted", "raised"}
              => (gen.status = "exhausted" /\ gen.i = Len(_SUPPORTED_PYTHONS) + 1)
        /\ Increasing(YieldedAt)
        /\ gen.status \in {"suspended", "exhausted"} =>
              { YieldedAt[n] : n \in 1..Len(YieldedAt) }
                = { k \in 1..(gen.i - 1) : HostTagAt(k) \/ NameSucceedsAt(k) }
        /\ \A n \in 1..Len(gen.yielded) :
              (gen.yielded[n].env._executable = sys.executable)
                  <=> HostTagAt(gen.yielded[n].at)

\* C17: the validation comes before the probe.  The positions whose executable
\* find_virtualenvs has run are, each once and in order, the positions it has
\* passed whose directory is valid, so a full enumeration has started as many
\* probes as the list has valid paths; create_environment starts no process
\* when the validation fails and one, whether it then fails or not, when the
\* validation succeeds.
C17_ProbeOnlyAfterValidation ==
    /\ gen.fn = "find_virtualenvs" =>
          /\ Increasing(gen.probed)
          /\ { gen.probed[n] : n \in 1..Len(gen.probed) }
               = { k \in 1..(gen.i - 1) : ValidAt(k) }
          /\ gen.status = "exhausted" =>
                Len(gen.probed)
                  = Cardinality({ k \in 1..Len(gen.paths) : ValidAt(k) })
    /\ last.fn = "create_environment" =>
          /\ last.ran = IF {Activate(last.path), Python(last.path)} \subseteq last.fs
                        THEN 1 ELSE 0
          /\ last.result.ok => (last.ran = 1 /\ envs[last.result.value].popen = 1)

C17_Witness ==
    /\ gen.fn = "find_virtualenvs" /\ gen.status = "exhausted"
    /\ Len(gen.paths) = 3
    /\ ValidAt(1) /\ ~ProbeSucceedsAt(1)
    /\ ~ValidAt(2)
    /\ ValidAt(3) /\ gen.paths[3] = gen.paths[1]
    /\ gen.probed = <<1, 3>>

\* C8: a discovery enumeration never raises, whatever happens to its
\* candidates, the probe of the host's own executable included.
C8_DiscoveryNeverRaises == gen.fn # None => gen.status # "raised"

====
